---- MODULE Spec2Model ----
(***************************************************************************)
(* A model of cmd/mygit/main.go: the object store, the staging index, the  *)
(* tree builder, the tree diff and the commit pipeline.                    *)
(*                                                                         *)
(* Files are sequences of bytes (integers 0..255).  Go strings and byte    *)
(* slices are sequences of bytes too; a Go offset i (0-based) addresses    *)
(* element i+1 of the sequence.  Every command of main() is one action.    *)
(* An I/O call that can fail takes its outcome from the set of faults the  *)
(* action is given.                                                        *)
(***************************************************************************)
EXTENDS Integers, Sequences, FiniteSets, TLC

(***************************************************************************)
(* Bounds of the model.                                                    *)
(***************************************************************************)
\* commit invocations in one behaviour
MaxCommits == 2
\* edits of the working tree and of HEAD from outside the program
MaxEdits == 1
\* invocations hit by an I/O fault
MaxFaulty == 1

(***************************************************************************)
(* Byte strings.                                                           *)
(***************************************************************************)
NUL == 0
\* an absent file (no byte is negative)
NoFile == <<-1>>

\* Go's s[lo:hi]
Slice(s, lo, hi) == SubSeq(s, lo + 1, hi)

\* the least element of a non-empty set of integers
Min(S) == CHOOSE k \in S : \A j \in S : k <= j

\* the 0-based offset of the first c in s at or after offset i, or -1
IndexFrom(s, i, c) ==
    LET at == {k \in i..(Len(s) - 1) : s[k + 1] = c}
    IN IF at = {} THEN -1 ELSE Min(at)

\* bytes.IndexByte(s[from:], c): relative to from
IndexByte(s, from, c) ==
    LET rel(k) == IF k = -1 THEN -1 ELSE k - from
    IN rel(IndexFrom(s, from, c))

HasPrefix(s, p) == Len(s) >= Len(p) /\ SubSeq(s, 1, Len(p)) = p

TrimPrefix(s, p) == IF HasPrefix(s, p) THEN SubSeq(s, Len(p) + 1, Len(s)) ELSE s

\* unicode.IsSpace on the bytes that occur: \t \n \v \f \r and space
IsSpace(c) == c \in {9, 10, 11, 12, 13, 32}

RECURSIVE TrimLeft(_)
TrimLeft(s) == IF s # <<>> /\ IsSpace(s[1]) THEN TrimLeft(Tail(s)) ELSE s

RECURSIVE TrimRight(_)
TrimRight(s) ==
    IF s # <<>> /\ IsSpace(s[Len(s)]) THEN TrimRight(SubSeq(s, 1, Len(s) - 1)) ELSE s

TrimSpace(s) == TrimRight(TrimLeft(s))

RECURSIVE Itoa(_)
\* fmt's %d of a non-negative integer
Itoa(n) == IF n < 10 THEN <<48 + n>> ELSE Itoa(n \div 10) \o <<48 + (n % 10)>>

\* Go's a < b on strings: lexicographic on the bytes
StrLess(a, b) ==
    LET n == IF Len(a) < Len(b) THEN Len(a) ELSE Len(b)
        at(diff) == IF diff = {} THEN Len(a) < Len(b) ELSE a[Min(diff)] < b[Min(diff)]
    IN at({i \in 1..n : a[i] # b[i]})

RECURSIVE SortStrings(_)
\* sort.Strings on a set of distinct strings: the ascending sequence
SortStrings(S) ==
    LET rest(m) == <<m>> \o SortStrings(S \ {m})
    IN IF S = {} THEN <<>>
       ELSE rest(CHOOSE x \in S : \A y \in S \ {x} : StrLess(x, y))

\* the literals of the source
StrBlob == <<98, 108, 111, 98, 32>>
StrTree == <<116, 114, 101, 101, 32>>
StrCommit == <<99, 111, 109, 109, 105, 116, 32>>
StrParent == <<112, 97, 114, 101, 110, 116, 32>>
StrAuthor == <<97, 117, 116, 104, 111, 114, 32>>
StrCommitter == <<99, 111, 109, 109, 105, 116, 116, 101, 114, 32>>
StrRefColon == <<114, 101, 102, 58>>
StrRef == <<114, 101, 102, 58, 32>>
StrRefHeads == <<114, 101, 102, 58, 32, 114, 101, 102, 115, 47, 104, 101, 97, 100, 115, 47>>
StrHeadInit == StrRefHeads \o <<109, 97, 105, 110, 10>>
StrMode == <<49, 48, 48, 54, 52, 52>>
StrDirMode == <<52, 48, 48, 48, 48>>
StrDot == <<46>>
LF == 10
SP == 32

(***************************************************************************)
(* Hashing and codec.                                                      *)
(***************************************************************************)
HashLen == 20
SumMod == 8388593
AdlerMod == 65521

\* the weight of offset i in the digest
SumWeight(i) == (i * i * 1009 + i * 104729 + 13) % SumMod

RECURSIVE SumFold(_, _, _)
\* the weighted sum of data[lo..hi] modulo SumMod, by halves
SumFold(data, lo, hi) ==
    IF lo > hi THEN 0
    ELSE IF lo = hi THEN ((data[lo] + 1) * SumWeight(lo)) % SumMod
    ELSE LET mid == (lo + hi) \div 2
         IN (SumFold(data, lo, mid) + SumFold(data, mid + 1, hi)) % SumMod

RECURSIVE Pow256(_)
Pow256(k) == IF k = 0 THEN 1 ELSE 256 * Pow256(k - 1)

\* sha1.Sum: a 20-byte digest of the exact bytes.  The digest is a polynomial
\* checksum of the bytes spread over 20 bytes; NoCollision checks that no two
\* byte strings the program stores share a digest.
Sum(data) ==
    LET spread(h) == [i \in 1..HashLen |->
                        IF i <= 3 THEN (h \div Pow256(i - 1)) % 256
                        ELSE ((h \div Pow256(i % 3)) + 37 * i) % 256]
    IN spread((SumFold(data, 1, Len(data)) + 7919 * Len(data) + 1) % SumMod)

HexDigit(n) == IF n < 10 THEN 48 + n ELSE 87 + n

\* hex.EncodeToString, fmt's %x
EncodeToString(b) ==
    [i \in 1..(2 * Len(b)) |->
        IF i % 2 = 1 THEN HexDigit(b[(i + 1) \div 2] \div 16)
        ELSE HexDigit(b[i \div 2] % 16)]

IsHexChar(c) == (c >= 48 /\ c <= 57) \/ (c >= 97 /\ c <= 102) \/ (c >= 65 /\ c <= 70)

\* FromHexChar that takes every letter for an upper-case one
FromHexCharUpper(c) == IF c <= 57 THEN c - 48 ELSE c - 55

FromHexChar(c) == IF c <= 57 THEN c - 48 ELSE IF c >= 97 THEN c - 87 ELSE c - 55

\* hexToBytes: [err, bytes]
hexToBytes(s) ==
    IF Len(s) % 2 # 0 \/ \E i \in 1..Len(s) : ~IsHexChar(s[i])
    THEN [err |-> TRUE, bytes |-> <<>>]
    ELSE [err |-> FALSE,
          bytes |-> [i \in 1..(Len(s) \div 2) |->
                       16 * FromHexChar(s[2 * i - 1]) + FromHexChar(s[2 * i])]]

RECURSIVE AdlerFold(_, _, _)
\* <<the sum of data[lo..hi], the sum of (n - i + 1) * data[i]>> modulo AdlerMod
AdlerFold(data, lo, hi) ==
    IF lo > hi THEN <<0, 0>>
    ELSE IF lo = hi THEN <<data[lo], ((Len(data) - lo + 1) * data[lo]) % AdlerMod>>
    ELSE LET add(l, r) == <<(l[1] + r[1]) % AdlerMod, (l[2] + r[2]) % AdlerMod>>
         IN add(AdlerFold(data, lo, (lo + hi) \div 2),
                AdlerFold(data, (lo + hi) \div 2 + 1, hi))

\* the Adler-32 trailer of a zlib stream: a = 1 + sum of the bytes, b = sum of
\* the running values of a
Adler32(data) ==
    LET trailer(a, b) == <<b \div 256, b % 256, a \div 256, a % 256>>
        sums(ab) == trailer((1 + ab[1]) % AdlerMod, (Len(data) + ab[2]) % AdlerMod)
    IN sums(AdlerFold(data, 1, Len(data)))

\* compress: the zlib stream of data (header, the data as stored, checksum)
compress(data) == <<120, 156>> \o data \o Adler32(data)

\* zlib.NewReader + io.ReadAll: [err, data]
Decompress(file) ==
    IF file = NoFile \/ Len(file) < 2 \/ SubSeq(file, 1, 2) # <<120, 156>>
    THEN [err |-> TRUE, data |-> <<>>]
    ELSE IF Len(file) < 6
    THEN [err |-> TRUE, data |-> <<>>]
    ELSE IF SubSeq(file, Len(file) - 3, Len(file)) # Adler32(SubSeq(file, 3, Len(file) - 4))
    THEN [err |-> TRUE, data |-> <<>>]
    ELSE [err |-> FALSE, data |-> SubSeq(file, 3, Len(file) - 4)]

\* the framed byte form "<kind> <len>\x00<body>"
Frame(kind, body) == kind \o Itoa(Len(body)) \o <<NUL>> \o body

\* fmt.Sprintf("%x", sha1.Sum(data))
HashHex(data) == EncodeToString(Sum(data))

(***************************************************************************)
(* Go maps as functions, and files.                                        *)
(***************************************************************************)
EmptyMap == <<>>

\* MapPut that keeps the value of a key the map already holds
MapPutKeep(m, k, v) == [x \in (DOMAIN m) \cup {k} |-> IF x \in DOMAIN m THEN m[x] ELSE v]

MapPut(m, k, v) == [x \in (DOMAIN m) \cup {k} |-> IF x = k THEN v ELSE m[x]]

\* the orders in which a range over a Go map may visit the keys of S
Orders(S) ==
    {o \in [1..Cardinality(S) -> S] : \A i, j \in DOMAIN o : i # j => o[i] # o[j]}

\* os.WriteFile: opens with O_TRUNC, writes, closes.  A failed open leaves the
\* file as it was; a failed write leaves it truncated.
WriteFile(old, data, openFails, writeFails) ==
    IF openFails THEN [err |-> TRUE, file |-> old]
    ELSE IF writeFails THEN [err |-> TRUE, file |-> <<>>]
    ELSE [err |-> FALSE, file |-> data]

(***************************************************************************)
(* Object store.  objects maps the 40 hex characters of a hash to the      *)
(* bytes of the file .git/objects/<2>/<38>.                                *)
(***************************************************************************)
\* hashFile: [err, hash, objects, wrote]
hashFile(fileContents, objs, F) ==
    LET failed(o) == [err |-> TRUE, hash |-> <<>>, objects |-> o, wrote |-> FALSE]
        store(data, hash) ==
            IF hash \in DOMAIN objs
            THEN [err |-> FALSE, hash |-> hash, objects |-> objs, wrote |-> FALSE]
            ELSE IF "blob_mkdir" \in F \/ "blob_create" \in F THEN failed(objs)
            \* os.Create made the file, zw.Write failed
            ELSE IF "blob_write" \in F THEN failed(MapPut(objs, hash, <<>>))
            \* the error of zw.Close() is dropped
            ELSE IF "blob_close" \in F
            THEN [err |-> FALSE, hash |-> hash,
                  objects |-> MapPut(objs, hash, <<120, 156>>), wrote |-> TRUE]
            ELSE [err |-> FALSE, hash |-> hash,
                  objects |-> MapPut(objs, hash, compress(data)), wrote |-> TRUE]
        framed(data) == store(data, HashHex(data))
    IN framed(Frame(StrBlob, fileContents))

\* readCompressedObject: [err, data]
readCompressedObject(objs, hash) ==
    IF hash \notin DOMAIN objs THEN [err |-> TRUE, data |-> <<>>]
    ELSE Decompress(objs[hash])

\* getFullHashFromAbbreviated: [err, hash].  os.ReadDir lists the directory
\* of the first two characters, by file name; a directory is there when an
\* object file is in it
getFullHashFromAbbreviated(objs, abbrev) ==
    LET first(files, at) ==
            IF at = {} THEN [err |-> TRUE, hash |-> <<>>]
            ELSE [err |-> FALSE, hash |-> files[Min(at)]]
        list(files) ==
            IF files = <<>> THEN [err |-> TRUE, hash |-> <<>>]
            ELSE first(files, {k \in 1..Len(files) :
                                  HasPrefix(files[k], Slice(abbrev, 2, Len(abbrev)))})
    IN IF Len(abbrev) < 7 THEN [err |-> TRUE, hash |-> <<>>]
       ELSE list(SortStrings({Slice(h, 2, Len(h)) :
                                h \in {x \in DOMAIN objs : Slice(x, 0, 2) = Slice(abbrev, 0, 2)}}))

\* catFile printing what follows the last NUL of the data
catFileFromLastNul(objs, object) ==
    LET cut(data, at) ==
            IF at = {} THEN [exit |-> 1, data |-> data, content |-> <<>>]
            ELSE [exit |-> 0, data |-> data,
                  content |-> Slice(data, (CHOOSE k \in at : \A j \in at : j <= k) + 1,
                                    Len(data))]
        read(r) == IF r.err THEN [exit |-> 1, data |-> <<>>, content |-> <<>>]
                   ELSE cut(r.data, {k \in 0..(Len(r.data) - 1) : r.data[k + 1] = NUL})
    IN IF Len(object) < 2 THEN [exit |-> 2, data |-> <<>>, content |-> <<>>]
       ELSE read(readCompressedObject(objs, object))

\* the cat-file command on the object named: the exit status, the bytes
\* inflated (data) and the bytes printed (content)
catFile(objs, object) ==
    LET cut(data, nullIndex) ==
            IF nullIndex = -1 THEN [exit |-> 1, data |-> data, content |-> <<>>]
            ELSE [exit |-> 0, data |-> data,
                  content |-> Slice(data, nullIndex + 1, Len(data))]
        \* os.Open, zlib.NewReader, io.Copy: each error exits 1
        read(r) == IF r.err THEN [exit |-> 1, data |-> <<>>, content |-> <<>>]
                   ELSE cut(r.data, IndexFrom(r.data, 0, NUL))
    \* object[:2] of a name shorter than 2
    IN IF Len(object) < 2 THEN [exit |-> 2, data |-> <<>>, content |-> <<>>]
       ELSE read(readCompressedObject(objs, object))

(***************************************************************************)
(* Staging index.                                                          *)
(***************************************************************************)
\* writeIndex's buffer for the entries visited in the given order: [err, bytes]
RECURSIVE IndexBytes(_, _, _, _)
IndexBytes(entries, order, i, buffer) ==
    LET write(path, hb) ==
            IF hb.err THEN [err |-> TRUE, bytes |-> buffer \o StrMode \o <<SP>> \o path \o <<NUL>>]
            ELSE IndexBytes(entries, order, i + 1,
                            buffer \o StrMode \o <<SP>> \o path \o <<NUL>> \o hb.bytes)
    IN IF i > Len(order) THEN [err |-> FALSE, bytes |-> buffer]
       ELSE write(order[i], hexToBytes(entries[order[i]]))

\* writeIndex: [err, file]
writeIndex(old, entries, order, F) ==
    LET write(b) == IF b.err THEN [err |-> TRUE, file |-> old]
                    ELSE WriteFile(old, b.bytes, "index_open" \in F, "index_write" \in F)
    IN write(IndexBytes(entries, order, 1, <<>>))

RECURSIVE readIndexLoop(_, _, _)
\* the loop of readIndex from offset i: [panic, entries]
readIndexLoop(content, i, entries) ==
    LET \* j: the offset after "i += 7"; k: the offset of the hash
        hash(j, nullIndex, k) ==
            IF k + HashLen > Len(content) THEN [panic |-> FALSE, entries |-> entries]
            ELSE readIndexLoop(content, k + HashLen,
                               MapPut(entries, Slice(content, j, j + nullIndex),
                                      EncodeToString(Slice(content, k, k + HashLen))))
        path(j, nullIndex) ==
            IF nullIndex = -1 THEN [panic |-> FALSE, entries |-> entries]
            ELSE hash(j, nullIndex, j + nullIndex + 1)
        mode(j) ==
            \* content[i:] with i > len(content): slice bounds out of range
            IF j > Len(content) THEN [panic |-> TRUE, entries |-> entries]
            ELSE path(j, IndexByte(content, j, NUL))
    IN IF ~(i < Len(content)) \/ i + 6 > Len(content)
       THEN [panic |-> FALSE, entries |-> entries]
       ELSE mode(i + 7)

\* readIndex that loads no entry whatever the file holds
readIndexFresh(file, F) ==
    IF "index_read" \in F THEN [err |-> TRUE, panic |-> FALSE, entries |-> EmptyMap]
    ELSE [err |-> FALSE, panic |-> FALSE, entries |-> EmptyMap]

\* readIndex: [err, panic, entries]
readIndex(file, F) ==
    IF "index_read" \in F THEN [err |-> TRUE, panic |-> FALSE, entries |-> EmptyMap]
    ELSE IF file = NoFile THEN [err |-> FALSE, panic |-> FALSE, entries |-> EmptyMap]
    ELSE LET read(r) == [err |-> FALSE, panic |-> r.panic, entries |-> r.entries]
         IN read(readIndexLoop(file, 0, EmptyMap))

(***************************************************************************)
(* Tree builder, tree reader, tree diff.                                   *)
(***************************************************************************)
\* strings.SplitN(s, sep, 2) for a one-byte separator
SplitN2(s, sep) ==
    LET cut(k) == IF k = -1 THEN <<s>> ELSE <<Slice(s, 0, k), Slice(s, k + 1, Len(s))>>
    IN cut(IndexFrom(s, 0, sep))

\* os.WriteFile on an object path: [err, objects]
WriteObject(objs, hash, bytes, openFails, writeFails) ==
    LET put(w) == [err |-> w.err,
                   objects |-> IF w.file = NoFile THEN objs ELSE MapPut(objs, hash, w.file)]
    IN put(WriteFile(IF hash \in DOMAIN objs THEN objs[hash] ELSE NoFile,
                     bytes, openFails, writeFails))

RECURSIVE TreeBuffer(_, _, _)
\* the second loop of writeTreeFromIndex over the sorted entries: [err, bytes]
TreeBuffer(entries, i, buffer) ==
    LET write(header, hashBytes) ==
            IF hashBytes.err THEN [err |-> TRUE, bytes |-> buffer]
            ELSE TreeBuffer(entries, i + 1, buffer \o header \o hashBytes.bytes)
        split(parts) ==
            IF Len(parts) # 2 THEN [err |-> TRUE, bytes |-> buffer]
            ELSE write(parts[1], hexToBytes(parts[2]))
    IN IF i > Len(entries) THEN [err |-> FALSE, bytes |-> buffer]
       ELSE split(SplitN2(entries[i], NUL))

\* the rendered entries of writeTreeFromIndex, sorted
TreeEntries(indexEntries) ==
    SortStrings({StrMode \o <<SP>> \o path \o <<NUL>> \o indexEntries[path] :
                   path \in DOMAIN indexEntries})

\* writeTreeFromIndex: [err, hash, objects]
writeTreeFromIndex(indexEntries, objs, F) ==
    LET written(treeHash, w) ==
            [err |-> w.err, hash |-> IF w.err THEN <<>> ELSE treeHash,
             objects |-> w.objects]
        store(data, treeHash) ==
            written(treeHash, WriteObject(objs, treeHash, compress(data),
                                          "tree_open" \in F, "tree_write" \in F))
        framed(data) == store(data, HashHex(data))
        built(b) ==
            IF b.err THEN [err |-> TRUE, hash |-> <<>>, objects |-> objs]
            ELSE framed(Frame(StrTree, b.bytes))
    IN built(TreeBuffer(TreeEntries(indexEntries), 1, <<>>))

\* a slice left in the order it has
SortSliceNone(s) == s

RECURSIVE SortSlice(_)
\* sort.Strings on a slice: its strings in ascending order
SortSlice(s) ==
    LET rest(m) == <<s[m]>> \o SortSlice(SubSeq(s, 1, m - 1) \o SubSeq(s, m + 1, Len(s)))
    IN IF s = <<>> THEN <<>>
       ELSE rest(CHOOSE i \in 1..Len(s) : \A j \in 1..Len(s) : ~StrLess(s[j], s[i]))

\* the first loop of writeTreeFromIndex, the range over the map visiting the
\* paths in the given order, and the sort
TreeEntriesIn(indexEntries, order) ==
    SortSlice([i \in 1..Len(order) |->
                 StrMode \o <<SP>> \o order[i] \o <<NUL>> \o indexEntries[order[i]]])

\* writeTreeFromIndex, the range over the map visiting the paths in the given
\* order: [err, hash, body, objects]
writeTreeFromIndexIn(indexEntries, order, objs, F) ==
    LET written(b, treeHash, w) ==
            [err |-> w.err, hash |-> IF w.err THEN <<>> ELSE treeHash,
             body |-> b.bytes, objects |-> w.objects]
        store(b, data, treeHash) ==
            written(b, treeHash, WriteObject(objs, treeHash, compress(data),
                                             "tree_open" \in F, "tree_write" \in F))
        framed(b, data) == store(b, data, HashHex(data))
        built(b) ==
            IF b.err THEN [err |-> TRUE, hash |-> <<>>, body |-> <<>>, objects |-> objs]
            ELSE framed(b, Frame(StrTree, b.bytes))
    IN built(TreeBuffer(TreeEntriesIn(indexEntries, order), 1, <<>>))

\* extractTreeHashFromCommit
extractTreeHashFromCommit(commitData) ==
    LET first(lines) ==
            IF HasPrefix(lines[1], StrTree) THEN TrimPrefix(lines[1], StrTree) ELSE <<>>
    IN first(SplitN2(commitData, LF))

\* io.ReadAll's buffer: the capacity of the slice it returns for n bytes
ReadAllCap(n) == IF n < 512 THEN 512 ELSE n

\* s[lo:hi] of a byte slice with hi within its capacity: the bytes past the
\* length are the zeroes of the buffer
CapSlice(s, lo, hi) == [k \in 1..(hi - lo) |-> IF lo + k <= Len(s) THEN s[lo + k] ELSE 0]

RECURSIVE readTreeLoop(_, _, _, _)
\* the loop of readTreeEntries: [panic, entries]
readTreeLoop(content, cap, i, entries) ==
    LET entry(nullIndex) ==
            IF nullIndex = -1 THEN [panic |-> FALSE, entries |-> entries]
            \* content[i : i+nullIndex+21] past the capacity
            ELSE IF i + nullIndex + 21 > cap THEN [panic |-> TRUE, entries |-> entries]
            ELSE readTreeLoop(content, cap, i + nullIndex + 21,
                              Append(entries, CapSlice(content, i, i + nullIndex + 21)))
    IN IF ~(i < Len(content)) THEN [panic |-> FALSE, entries |-> entries]
       ELSE entry(IndexByte(content, i, NUL))

\* readTreeEntries: [panic, entries]
readTreeEntries(objs, treeHash) ==
    IF treeHash = <<>> THEN [panic |-> FALSE, entries |-> <<>>]
    ELSE IF Len(treeHash) < 2 THEN [panic |-> TRUE, entries |-> <<>>]
    ELSE LET body(compressedData, nullIndex) ==
                 IF nullIndex = -1 THEN [panic |-> FALSE, entries |-> <<>>]
                 ELSE readTreeLoop(Slice(compressedData, nullIndex + 1, Len(compressedData)),
                                   ReadAllCap(Len(compressedData)) - (nullIndex + 1), 0, <<>>)
             read(r) == IF r.err THEN [panic |-> FALSE, entries |-> <<>>]
                        ELSE body(r.data, IndexFrom(r.data, 0, NUL))
         IN read(readCompressedObject(objs, treeHash))

RECURSIVE PathMap(_, _, _)
\* the oldPaths / newPaths loops of compareTrees
PathMap(entries, i, paths) ==
    LET put(parts, headerParts) ==
            PathMap(entries, i + 1,
                    IF Len(headerParts) = 2
                    THEN MapPut(paths, headerParts[2], parts[2]) ELSE paths)
        split(parts) == put(parts, SplitN2(parts[1], SP))
    IN IF i > Len(entries) THEN paths
       ELSE split(SplitN2(entries[i], NUL))

\* compareTrees: [panic, insertions, deletions]
compareTrees(objs, oldTreeHash, newTreeHash) ==
    LET count(oldPaths, newPaths) ==
            [panic |-> FALSE,
             insertions |->
                 Cardinality({q \in DOMAIN newPaths : q \notin DOMAIN oldPaths})
                 + Cardinality({q \in DOMAIN newPaths :
                                  q \in DOMAIN oldPaths /\ oldPaths[q] # newPaths[q]}),
             deletions |->
                 Cardinality({q \in DOMAIN newPaths :
                                q \in DOMAIN oldPaths /\ oldPaths[q] # newPaths[q]})
                 + Cardinality({q \in DOMAIN oldPaths : q \notin DOMAIN newPaths})]
        read(old, new) ==
            IF old.panic \/ new.panic THEN [panic |-> TRUE, insertions |-> 0, deletions |-> 0]
            ELSE count(PathMap(old.entries, 1, EmptyMap), PathMap(new.entries, 1, EmptyMap))
    IN read(readTreeEntries(objs, oldTreeHash), readTreeEntries(objs, newTreeHash))

RECURSIVE readTreeRecords(_, _, _)
\* the loop of the read-tree command: the (mode, path, hash) records of a tree body
readTreeRecords(content, i, recs) ==
    LET hash(spaceIndex, startOfPath, nullIndex, startOfHash) ==
            IF startOfHash + HashLen > Len(content) THEN recs
            ELSE readTreeRecords(content, startOfHash + HashLen,
                   Append(recs,
                     [mode |-> Slice(content, i, i + spaceIndex),
                      path |-> Slice(content, startOfPath, startOfPath + nullIndex),
                      hash |-> EncodeToString(
                                 Slice(content, startOfHash, startOfHash + HashLen))]))
        path(spaceIndex, startOfPath, nullIndex) ==
            IF nullIndex = -1 THEN recs
            ELSE hash(spaceIndex, startOfPath, nullIndex, startOfPath + nullIndex + 1)
        mode(spaceIndex) ==
            IF spaceIndex = -1 THEN recs
            ELSE path(spaceIndex, i + spaceIndex + 1,
                      IndexByte(content, i + spaceIndex + 1, NUL))
    IN IF ~(i < Len(content)) THEN recs
       ELSE mode(IndexByte(content, i, SP))

(***************************************************************************)
(* The repository and the working tree.                                    *)
(***************************************************************************)
PathA == <<97>>
PathDF == <<100, 47, 102>>
Paths == {PathA, PathDF}
ContentHi == <<104, 105>>
ContentYo == <<121, 111>>
Contents == {ContentHi, ContentYo}
\* the working trees init is run in
WorkTrees == {[q \in Paths |-> IF q = PathA THEN ContentHi ELSE ContentYo],
              [q \in Paths |-> IF q = PathA THEN ContentHi ELSE NoFile]}
RefsDir == <<114, 101, 102, 115>>
\* the user of .git/config, a file the user writes (init does not)
UserName == <<117>>
UserEmail == <<101>>
Message == <<109>>
TimeZone == <<43, 48, 48, 48, 48>>
\* what time.Now().Unix() returns: the commits of a behaviour fall in one second
Times == {1}

VARIABLES
    probe,     \* the input and the result of a function applied on its own
    wt,        \* working tree: path -> content, or NoFile
    head,      \* .git/HEAD
    refs,      \* the files under .git/refs: path relative to .git -> content
    dirs,      \* the directories under .git/refs that exist
    index,     \* .git/index, or NoFile
    objects,   \* .git/objects: hash in hex -> bytes of the file
    last,      \* what the last invocation did and printed
    prev,      \* the last completed commit: its hash and the index it was made of
    staged,    \* for each path of the index file, the content read when it was staged
    ncommits, nedits, nfaulty

vars == <<probe, wt, head, refs, dirs, index, objects, last, prev, staged, ncommits, nedits, nfaulty>>

NoRun == [cmd |-> "none", exit |-> 0, faults |-> {}, args |-> <<>>, hash |-> <<>>,
          tree |-> <<>>, parent |-> <<>>, insertions |-> 0, deletions |-> 0,
          entries |-> EmptyMap, failed |-> {}, errs |-> {}]

\* filepath.Dir
Dir(path) ==
    LET cut(at) == IF at = {} THEN StrDot
                   ELSE Slice(path, 0, CHOOSE k \in at : \A j \in at : j <= k)
    IN cut({k \in 0..(Len(path) - 1) : path[k + 1] = 47})

\* the directories above a path of the working tree
DirsOf(path) == {Slice(path, 0, k) : k \in {j \in 1..(Len(path) - 1) : path[j + 1] = 47}}

\* filepath.Walk("."): the files and directories below ".", each directory
\* before what it holds, names in lexical order: [path, isDir]
Walk(wtree) ==
    LET key(q) == [i \in 1..Len(q) |-> IF q[i] = 47 THEN 0 ELSE q[i]]
        unkey(k) == [i \in 1..Len(k) |-> IF k[i] = 0 THEN 47 ELSE k[i]]
        nodes(ds, sorted) ==
            [i \in 1..Len(sorted) |->
                [path |-> unkey(sorted[i]), isDir |-> unkey(sorted[i]) \in ds]]
        order(files, ds) == nodes(ds, SortStrings({key(q) : q \in files \cup ds}))
        below(files) == order(files, UNION {DirsOf(q) : q \in files})
    IN below({q \in Paths : wtree[q] # NoFile})

NoCommit == [hash |-> <<>>, entries |-> EmptyMap]

NoProbe == [fn |-> "none"]

\* the state after `mygit init` in a directory that holds one of WorkTrees
Init ==
    /\ probe = NoProbe
    /\ wt \in WorkTrees
    /\ head = StrHeadInit
    /\ refs = EmptyMap
    /\ dirs = {RefsDir}
    /\ index = NoFile
    /\ objects = EmptyMap
    /\ last = NoRun
    /\ prev = NoCommit
    /\ staged = EmptyMap
    /\ ncommits = 0 /\ nedits = 0 /\ nfaulty = 0

\* an invocation given the faults F counts against MaxFaulty
Faulty(F) ==
    /\ F # {} => nfaulty < MaxFaulty
    /\ nfaulty' = IF F # {} THEN nfaulty + 1 ELSE nfaulty

(***************************************************************************)
(* init                                                                    *)
(***************************************************************************)
GitInit ==
    /\ head' = StrHeadInit
    /\ dirs' = dirs \cup {RefsDir}
    /\ last' = [NoRun EXCEPT !.cmd = "init"]
    /\ UNCHANGED <<probe, wt, refs, index, objects, prev, staged, ncommits, nedits, nfaulty>>

(***************************************************************************)
(* add                                                                     *)
(***************************************************************************)
\* addFileToIndex: [err, entries, objects, staged]
addFileToIndex(st, wtree, filePath, F) ==
    IF filePath \notin Paths \/ wtree[filePath] = NoFile
    THEN [st EXCEPT !.err = TRUE]
    ELSE LET put(h) ==
                 IF h.err THEN [st EXCEPT !.err = TRUE, !.objects = h.objects]
                 ELSE [err |-> FALSE,
                       entries |-> MapPut(st.entries, filePath, h.hash),
                       objects |-> h.objects,
                       staged |-> MapPut(st.staged, filePath, wtree[filePath])]
         IN put(hashFile(wtree[filePath], st.objects, F))

\* the files the add loop passes to addFileToIndex, in order: [path, walk]
RECURSIVE AddSteps(_, _, _)
AddSteps(filesToAdd, i, wtree) ==
    IF i > Len(filesToAdd) THEN <<>>
    ELSE (IF filesToAdd[i] = StrDot
          THEN LET walked(w) == [k \in 1..Len(w) |-> [path |-> w[k].path, walk |-> TRUE]]
               IN walked(SelectSeq(Walk(wtree), LAMBDA n : ~n.isDir))
          ELSE <<[path |-> filesToAdd[i], walk |-> FALSE]>>)
         \o AddSteps(filesToAdd, i + 1, wtree)

RECURSIVE AddLoop(_, _, _, _, _, _)
\* the add loop: an error under "." exits, an error of a named file is
\* printed and the loop goes on: [abort, errs, st]
AddLoop(steps, i, st, errs, wtree, F) ==
    LET added(a) ==
            IF a.err /\ steps[i].walk
            THEN [abort |-> TRUE, errs |-> errs \cup {steps[i].path}, st |-> a]
            ELSE AddLoop(steps, i + 1, a,
                         IF a.err THEN errs \cup {steps[i].path} ELSE errs, wtree, F)
    IN IF i > Len(steps) THEN [abort |-> FALSE, errs |-> errs, st |-> st]
       ELSE added(addFileToIndex([st EXCEPT !.err = FALSE], wtree, steps[i].path, F))

AddArgs == {<<PathA>>, <<PathDF>>, <<StrDot>>, <<PathDF, PathA>>}

AddFaults == {{}, {"blob_create"}, {"blob_write"}, {"blob_close"},
              {"index_read"}, {"index_open"}, {"index_write"}}

Add(filesToAdd, F) ==
    LET run(exit, errs) == [NoRun EXCEPT !.cmd = "add", !.exit = exit, !.faults = F,
                                         !.args = filesToAdd, !.errs = errs]
        written(l, w) ==
            /\ index' = w.file
            /\ staged' = IF ~w.err THEN l.st.staged
                         ELSE IF w.file = index THEN staged ELSE EmptyMap
            /\ last' = run(IF w.err THEN 1 ELSE 0, l.errs)
        looped(l) ==
            /\ objects' = l.st.objects
            /\ IF l.abort
               THEN /\ last' = run(1, l.errs)
                    /\ UNCHANGED <<index, staged>>
               ELSE \E order \in Orders(DOMAIN l.st.entries) :
                      written(l, writeIndex(index, l.st.entries, order, F))
        read(r) ==
            IF r.err \/ r.panic
            THEN /\ last' = run(IF r.panic THEN 2 ELSE 1, {})
                 /\ UNCHANGED <<index, objects, staged>>
            ELSE looped(AddLoop(AddSteps(filesToAdd, 1, wt), 1,
                                [err |-> FALSE, entries |-> r.entries,
                                 objects |-> objects, staged |-> staged], {}, wt, F))
    IN
    /\ Faulty(F)
    /\ read(readIndex(index, F))
    /\ UNCHANGED <<probe, wt, head, refs, dirs, prev, ncommits, nedits>>

(***************************************************************************)
(* commit                                                                  *)
(***************************************************************************)
\* os.ReadFile(".git/HEAD"): [err, data]
ReadHead(hd, fails) ==
    IF fails \/ hd = NoFile THEN [err |-> TRUE, data |-> <<>>]
    ELSE [err |-> FALSE, data |-> hd]

\* the ref path a HEAD of the form "ref: <path>" names, or <<>>
RefPath(hd) ==
    LET ref(headStr) == IF HasPrefix(headStr, StrRef)
                        THEN TrimSpace(TrimPrefix(headStr, StrRefColon)) ELSE <<>>
    IN ref(TrimSpace(hd))

\* ResolveParent with the ref path left untrimmed
ResolveParentUntrimmed(hd, rfs, fails) ==
    LET ref(refPath) == IF refPath \in DOMAIN rfs THEN TrimSpace(rfs[refPath]) ELSE <<>>
    IN IF fails \/ ~HasPrefix(hd, StrRef) THEN <<>> ELSE ref(TrimPrefix(hd, StrRef))

\* the parentHash of commit
ResolveParent(hd, rfs, fails) ==
    LET ref(refPath) == IF refPath \in DOMAIN rfs THEN TrimSpace(rfs[refPath]) ELSE <<>>
        read(headData) ==
            IF headData.err THEN <<>>
            ELSE IF ~HasPrefix(TrimSpace(headData.data), StrRef) THEN <<>>
            ELSE ref(RefPath(headData.data))
    IN read(ReadHead(hd, fails))

\* the commit body
CommitContent(treeHash, parentHash, timestamp) ==
    StrTree \o treeHash \o <<LF>>
    \o (IF parentHash # <<>> THEN StrParent \o parentHash \o <<LF>> ELSE <<>>)
    \o StrAuthor \o UserName \o <<SP, 60>> \o UserEmail \o <<62, SP>>
       \o Itoa(timestamp) \o <<SP>> \o TimeZone \o <<LF>>
    \o StrCommitter \o UserName \o <<SP, 60>> \o UserEmail \o <<62, SP>>
       \o Itoa(timestamp) \o <<SP>> \o TimeZone \o <<LF>>
    \o <<LF>> \o Message

\* the changesSummary of commit: [panic, insertions, deletions]
ChangesSummary(objs, parentHash, treeHash, indexEntries) ==
    IF parentHash = <<>>
    THEN [panic |-> FALSE, insertions |-> Cardinality(DOMAIN indexEntries), deletions |-> 0]
    ELSE IF Len(parentHash) < 2 THEN [panic |-> TRUE, insertions |-> 0, deletions |-> 0]
    ELSE LET read(parentCommitData) ==
                 compareTrees(objs,
                              IF parentCommitData.err THEN <<>>
                              ELSE extractTreeHashFromCommit(parentCommitData.data),
                              treeHash)
         IN read(readCompressedObject(objs, parentHash))

\* the update of the ref HEAD names: [exit, refs, dirs, wrote]
UpdateRef(hd, rfs, ds, commitHash, F) ==
    LET written(refPath, w, ds2) ==
            [exit |-> IF w.err THEN 1 ELSE 0,
             refs |-> IF w.file = NoFile THEN rfs ELSE MapPut(rfs, refPath, w.file),
             dirs |-> ds2, wrote |-> ~w.err]
        write(refPath, ds2) ==
            written(refPath,
                    WriteFile(IF refPath \in DOMAIN rfs THEN rfs[refPath] ELSE NoFile,
                              commitHash \o <<LF>>, "ref_open" \in F, "ref_write" \in F),
                    ds2)
        ref(refPath, refDir) ==
            IF refDir \in ds THEN write(refPath, ds)
            \* the write fails with ENOENT: create the directory, write again
            ELSE IF "ref_mkdir" \in F
            THEN [exit |-> 1, refs |-> rfs, dirs |-> ds, wrote |-> FALSE]
            ELSE write(refPath, ds \cup {refDir})
        named(refPath) == ref(refPath, Dir(refPath))
        read(headData) ==
            IF headData.err \/ ~HasPrefix(TrimSpace(headData.data), StrRef)
            THEN [exit |-> 0, refs |-> rfs, dirs |-> ds, wrote |-> FALSE]
            ELSE named(RefPath(headData.data))
    IN read(ReadHead(hd, "head_read3" \in F))

\* CommitClearIndex with the index file left as it is
CommitKeepIndex(c, x) == [c EXCEPT !.exit = IF x.err THEN 1 ELSE 0]

\* commit, last step: the index is cleared
CommitClearIndex(c, x) ==
    [c EXCEPT !.index = x.file, !.exit = IF x.err THEN 1 ELSE 0]

\* commit, after the ref update u
CommitRefUpdated(c, u, F) ==
    IF u.exit # 0 THEN [c EXCEPT !.refs = u.refs, !.dirs = u.dirs, !.failed = @ \cup {"ref"}]
    ELSE CommitClearIndex([c EXCEPT !.refs = u.refs, !.dirs = u.dirs],
                          writeIndex(c.index, EmptyMap, <<>>, F))

\* commit, after the change summary sum was computed
CommitSummed(c, sum, hd, F) ==
    IF sum.panic THEN [c EXCEPT !.exit = 2]
    ELSE CommitRefUpdated([c EXCEPT !.insertions = sum.insertions,
                                    !.deletions = sum.deletions,
                                    !.failed = IF ReadHead(hd, "head_read3" \in F).err
                                               THEN @ \cup {"head"} ELSE @],
                          UpdateRef(hd, c.refs, c.dirs, c.hash, F), F)

\* commit, after the write w of the commit object commitHash
CommitStored(c, commitHash, w, hd, F) ==
    IF w.err THEN [c EXCEPT !.objects = w.objects, !.failed = @ \cup {"commit"}]
    ELSE CommitSummed([c EXCEPT !.objects = w.objects, !.hash = commitHash],
                      ChangesSummary(w.objects, c.parent, c.tree, c.entries), hd, F)

\* commit, the write of the commit object whose framed bytes are fullCommitData
CommitStore(c, fullCommitData, hd, F) ==
    LET store(commitHash) ==
            CommitStored(c, commitHash,
                         WriteObject(c.objects, commitHash, compress(fullCommitData),
                                     "commit_open" \in F, "commit_write" \in F),
                         hd, F)
    IN store(HashHex(fullCommitData))

\* commit, after the write t of the tree: parent, then the commit object
CommitTreeWritten(c, t, hd, timestamp, F) ==
    LET resolved(parentHash) ==
            CommitStore([c EXCEPT !.objects = t.objects, !.tree = t.hash,
                                  !.parent = parentHash,
                                  !.failed = IF ReadHead(hd, "head_read1" \in F).err
                                             THEN {"head"} ELSE {}],
                        Frame(StrCommit, CommitContent(t.hash, parentHash, timestamp)),
                        hd, F)
    IN IF t.err THEN [c EXCEPT !.objects = t.objects, !.failed = {"tree"}]
       ELSE resolved(ResolveParent(hd, c.refs, "head_read1" \in F))

\* CommitIndexRead with no check that the index holds an entry
CommitIndexReadUnchecked(c, r, hd, timestamp, F) ==
    IF r.err THEN c
    ELSE IF r.panic THEN [c EXCEPT !.exit = 2]
    ELSE CommitTreeWritten([c EXCEPT !.entries = r.entries],
                           writeTreeFromIndex(r.entries, c.objects, F), hd, timestamp, F)

\* commit, after the read r of the index
CommitIndexRead(c, r, hd, timestamp, F) ==
    IF r.err THEN c
    ELSE IF r.panic THEN [c EXCEPT !.exit = 2]
    ELSE IF DOMAIN r.entries = {} THEN c
    ELSE CommitTreeWritten([c EXCEPT !.entries = r.entries],
                           writeTreeFromIndex(r.entries, c.objects, F), hd, timestamp, F)

\* the commit command on the files given: what it leaves and prints
CommitRun(hd, rfs, ds, idx, objs, timestamp, F) ==
    LET c == [exit |-> 1, refs |-> rfs, dirs |-> ds, index |-> idx, objects |-> objs,
              hash |-> <<>>, tree |-> <<>>, parent |-> <<>>,
              insertions |-> 0, deletions |-> 0, entries |-> EmptyMap, failed |-> {}]
    IN IF "config" \in F THEN c
       ELSE CommitIndexRead(c, readIndex(idx, F), hd, timestamp, F)

HeadFaults == {"head_read1", "head_read2", "head_read3"}

CommitFaults == {{}, {"config"}, {"index_read"}, {"tree_open"}, {"tree_write"},
                 {"head_read1"}, HeadFaults, {"commit_open"}, {"commit_write"},
                 {"ref_open"}, {"ref_write"}, {"ref_mkdir"},
                 {"index_open"}, {"index_write"}}

Commit(timestamp, F) ==
    LET ran(c) ==
            /\ refs' = c.refs
            /\ dirs' = c.dirs
            /\ index' = c.index
            /\ objects' = c.objects
            /\ staged' = IF c.index = index THEN staged ELSE EmptyMap
            /\ prev' = IF c.exit = 0 THEN [hash |-> c.hash, entries |-> c.entries] ELSE prev
            /\ last' = [cmd |-> "commit", exit |-> c.exit, faults |-> F, args |-> <<>>,
                        hash |-> c.hash, tree |-> c.tree, parent |-> c.parent,
                        insertions |-> c.insertions, deletions |-> c.deletions,
                        entries |-> c.entries, failed |-> c.failed, errs |-> {}]
    IN
    /\ ncommits < MaxCommits
    /\ ncommits' = ncommits + 1
    /\ Faulty(F)
    /\ ran(CommitRun(head, refs, dirs, index, objects, timestamp, F))
    /\ UNCHANGED <<probe, wt, head, nedits>>

(***************************************************************************)
(* write-tree                                                              *)
(***************************************************************************)
RECURSIVE WriteTreeLoop(_, _, _, _, _, _)
\* the walk of write-tree: [err, buffer, objects]
WriteTreeLoop(nodes, i, buffer, objs, wtree, F) ==
    LET entry(h, hashBytes) ==
            IF h.err \/ hashBytes.err
            THEN [err |-> TRUE, buffer |-> buffer, objects |-> h.objects]
            ELSE WriteTreeLoop(nodes, i + 1,
                               buffer \o StrMode \o <<SP>> \o nodes[i].path \o <<NUL>>
                                      \o hashBytes.bytes,
                               h.objects, wtree, F)
        file(h) == entry(h, hexToBytes(h.hash))
    IN IF i > Len(nodes) THEN [err |-> FALSE, buffer |-> buffer, objects |-> objs]
       ELSE IF nodes[i].isDir
       \* hash = make([]byte, 20) for a directory
       THEN WriteTreeLoop(nodes, i + 1,
                          buffer \o StrDirMode \o <<SP>> \o nodes[i].path \o <<NUL>>
                                 \o [k \in 1..HashLen |-> 0],
                          objs, wtree, F)
       ELSE file(hashFile(wtree[nodes[i].path], objs, F))

WriteTreeFaults == {{}, {"blob_write"}, {"tree_open"}, {"tree_write"}, {"tree_close"}}

WriteTree(F) ==
    LET run(exit, hash) ==
            [NoRun EXCEPT !.cmd = "write-tree", !.exit = exit, !.faults = F,
                          !.hash = hash, !.tree = hash]
        store(l, data, treeHash) ==
            IF "tree_write" \in F
            THEN /\ objects' = MapPut(l.objects, treeHash, <<>>)
                 /\ last' = run(1, <<>>)
            ELSE IF "tree_close" \in F
            THEN /\ objects' = MapPut(l.objects, treeHash, <<120, 156>>)
                 /\ last' = run(0, treeHash)
            ELSE /\ objects' = MapPut(l.objects, treeHash, compress(data))
                 /\ last' = run(0, treeHash)
        framed(l, data) == store(l, data, HashHex(data))
        walked(l) ==
            IF l.err \/ "tree_open" \in F
            THEN objects' = l.objects /\ last' = run(1, <<>>)
            ELSE framed(l, Frame(StrTree, l.buffer))
    IN
    /\ Faulty(F)
    /\ walked(WriteTreeLoop(Walk(wt), 1, <<>>, objects, wt, F))
    /\ UNCHANGED <<probe, wt, head, refs, dirs, index, prev, staged, ncommits, nedits>>

(***************************************************************************)
(* The world outside the program: the user edits the working tree, and a   *)
(* checkout tool detaches HEAD at the commit of the current branch.        *)
(***************************************************************************)
Edit(path, content) ==
    /\ nedits < MaxEdits
    /\ wt[path] # content
    /\ nedits' = nedits + 1
    /\ wt' = [wt EXCEPT ![path] = content]
    /\ last' = [NoRun EXCEPT !.cmd = "edit"]
    /\ UNCHANGED <<probe, head, refs, dirs, index, objects, prev, staged, ncommits, nfaulty>>

DetachHead ==
    /\ RefPath(head) \in DOMAIN refs
    /\ TrimSpace(refs[RefPath(head)]) # <<>>
    /\ head' = TrimSpace(refs[RefPath(head)]) \o <<LF>>
    /\ last' = [NoRun EXCEPT !.cmd = "detach"]
    /\ UNCHANGED <<probe, wt, refs, dirs, index, objects, prev, staged, ncommits, nedits, nfaulty>>

\* the commands of the program, each with the I/O failures it may meet
Next ==
    \/ GitInit
    \/ \E filesToAdd \in AddArgs, F \in AddFaults : Add(filesToAdd, F)
    \/ \E timestamp \in Times, F \in CommitFaults : Commit(timestamp, F)
    \/ \E F \in WriteTreeFaults : WriteTree(F)

Spec == Init /\ [][Next]_vars

\* add and commit with no I/O failure, HEAD as init left it, the user editing
\* the working tree in between
NextChain ==
    \/ \E filesToAdd \in AddArgs : Add(filesToAdd, {})
    \/ \E timestamp \in Times : Commit(timestamp, {})
    \/ \E path \in Paths, content \in Contents \cup {NoFile} : Edit(path, content)

SpecChain == Init /\ [][NextChain]_vars

\* the same, and HEAD may be detached at the commit of the branch
NextHead ==
    \/ \E filesToAdd \in AddArgs : Add(filesToAdd, {})
    \/ \E timestamp \in Times : Commit(timestamp, {})
    \/ DetachHead

SpecHead == Init /\ [][NextHead]_vars

(***************************************************************************)
(* readIndex on its own: an index file writeIndex wrote, cut at an offset. *)
(***************************************************************************)
\* the maps add can leave in the index
IndexMaps ==
    UNION {[D -> {HashHex(Frame(StrBlob, c)) : c \in Contents}] : D \in SUBSET Paths}

IndexInit ==
    /\ wt \in WorkTrees
    /\ head = StrHeadInit
    /\ refs = EmptyMap
    /\ dirs = {RefsDir}
    /\ objects = EmptyMap
    /\ last = NoRun
    /\ prev = NoCommit
    /\ staged = EmptyMap
    /\ ncommits = 0 /\ nedits = 0 /\ nfaulty = 0
    /\ \E entries \in IndexMaps : \E order \in Orders(DOMAIN entries) :
         \E cut \in 0..Len(IndexBytes(entries, order, 1, <<>>).bytes) :
            /\ index = Slice(IndexBytes(entries, order, 1, <<>>).bytes, 0, cut)
            /\ probe = [fn |-> "readIndex", entries |-> entries, order |-> order,
                        cut |-> cut, done |-> FALSE, err |-> FALSE, panic |-> FALSE,
                        result |-> EmptyMap]

\* readIndex is applied to the index file
ReadIndex ==
    LET read(r) == probe' = [probe EXCEPT !.done = TRUE, !.err = r.err,
                                          !.panic = r.panic, !.result = r.entries]
    IN /\ probe.fn = "readIndex"
       /\ ~probe.done
       /\ read(readIndex(index, {}))
       /\ UNCHANGED <<wt, head, refs, dirs, index, objects, last, prev, staged,
                      ncommits, nedits, nfaulty>>

SpecIndex == IndexInit /\ [][ReadIndex]_vars

(***************************************************************************)
(* The store and the index read back, for the properties below.            *)
(***************************************************************************)
\* what follows the first NUL of the framed bytes of an object
ObjectBody(data) ==
    LET cut(k) == IF k = -1 THEN <<>> ELSE Slice(data, k + 1, Len(data))
    IN cut(IndexFrom(data, 0, NUL))

RECURSIVE Lines(_)
\* the lines of a text, split at LF
Lines(s) ==
    LET cut(k) == IF k = -1 THEN <<s>>
                  ELSE <<Slice(s, 0, k)>> \o Lines(Slice(s, k + 1, Len(s)))
    IN cut(IndexFrom(s, 0, LF))

\* the lines of a commit body above its first empty line
Headers(body) ==
    LET above(lines) == {lines[j] : j \in {i \in 1..Len(lines) :
                                             \A k \in 1..i : lines[k] # <<>>}}
    IN above(Lines(body))

\* the values of the header lines of a stored commit that start with key
HeaderValues(objs, h, key) ==
    LET of(r) == IF r.err \/ ~HasPrefix(r.data, StrCommit) THEN {}
                 ELSE {TrimPrefix(l, key) : l \in {x \in Headers(ObjectBody(r.data)) :
                                                     HasPrefix(x, key)}}
    IN of(readCompressedObject(objs, h))

ParentsOf(objs, h) == HeaderValues(objs, h, StrParent)

\* the (mode, path, hash) records of a stored tree
TreeRecords(objs, h) ==
    LET set(recs) == {recs[i] : i \in 1..Len(recs)}
        of(r) == IF r.err \/ ~HasPrefix(r.data, StrTree) THEN {}
                 ELSE set(readTreeRecords(ObjectBody(r.data), 0, <<>>))
    IN of(readCompressedObject(objs, h))

\* the hashes a stored object records
RefsOf(objs, h) ==
    {rec.hash : rec \in TreeRecords(objs, h)}
    \cup HeaderValues(objs, h, StrTree) \cup HeaderValues(objs, h, StrParent)

\* the file of h inflates to framed bytes whose hash is h
Complete(objs, h) ==
    LET ok(r) == ~r.err /\ HashHex(r.data) = h
    IN ok(readCompressedObject(objs, h))

\* the hash the index file holds for a path, or <<>>
IndexAt(file, q) ==
    LET at(r) == IF q \in DOMAIN r.entries THEN r.entries[q] ELSE <<>>
    IN at(readIndex(file, {}))

\* the counts of section 4.5 on two path -> hash maps
DiffOf(old, new) ==
    [insertions |-> Cardinality({q \in DOMAIN new : q \notin DOMAIN old \/ old[q] # new[q]}),
     deletions |-> Cardinality({q \in DOMAIN old : q \notin DOMAIN new \/ old[q] # new[q]})]

\* a step of commit that ran to its end with exit status 0
CommitDone == last'.cmd = "commit" /\ ncommits' = ncommits + 1 /\ last'.exit = 0

(***************************************************************************)
(* C1                                                                      *)
(***************************************************************************)
\* C1: from init, with no I/O failure, the body of the first successful commit
\* has no parent line, the body of every later one has one parent line, the
\* hash of the successful commit before it, and after each the ref file HEAD
\* names holds the hash of that commit.
C1_CommitChaining ==
    [][CommitDone =>
          /\ ParentsOf(objects', last'.hash)
               = (IF prev.hash = <<>> THEN {} ELSE {prev.hash})
          /\ RefPath(head') \in DOMAIN refs'
          /\ TrimSpace(refs'[RefPath(head')]) = last'.hash
          /\ prev'.hash = last'.hash]_vars

\* a second commit is stored, with the first as its parent
C1_SecondCommitChained ==
    /\ last.cmd = "commit" /\ last.exit = 0 /\ ncommits = 2
    /\ last.parent # <<>>
    /\ ParentsOf(objects, last.parent) = {}
    /\ ParentsOf(objects, last.hash) = {last.parent}
    /\ TrimSpace(refs[RefPath(head)]) = last.hash

(***************************************************************************)
(* C2                                                                      *)
(***************************************************************************)
\* C2: a commit made on a parent prints as its summary the diff of the
\* parent's tree and the new tree: the counts of section 4.5 on what the two
\* commits staged.
C2_SummaryIsTreeDiff ==
    [][(CommitDone /\ last'.parent # <<>> /\ last'.parent = prev.hash) =>
          /\ last'.insertions = DiffOf(prev.entries, last'.entries).insertions
          /\ last'.deletions = DiffOf(prev.entries, last'.entries).deletions]_vars

(***************************************************************************)
(* C3                                                                      *)
(***************************************************************************)
\* C3: when HEAD holds a commit hash and not a "ref: " redirect, a commit of a
\* non-empty index stores a body whose parent line names that hash.
C3_DetachedHeadParent ==
    [][(/\ last'.cmd = "commit" /\ ncommits' = ncommits + 1
        /\ last'.hash # <<>>
        /\ ~HasPrefix(TrimSpace(head), StrRef)
        /\ TrimSpace(head) # <<>>)
       => ParentsOf(objects', last'.hash) = {TrimSpace(head)}]_vars

(***************************************************************************)
(* C4                                                                      *)
(***************************************************************************)
\* C4: a commit in which the read of HEAD, the write of the tree, the write
\* of the commit object or the write of the ref failed exits with an error
\* and leaves the ref files and the index as they were.
C4_FailedCommitKeepsRefAndIndex ==
    [][(last'.cmd = "commit" /\ ncommits' = ncommits + 1 /\ last'.failed # {})
       => (last'.exit # 0 /\ refs' = refs /\ index' = index)]_vars

(***************************************************************************)
(* C5                                                                      *)
(***************************************************************************)
\* C5: every hash recorded in an entry of a stored tree, and every tree and
\* parent hash recorded in a stored commit, names an object of the store.
C5_ReferencedObjectsStored ==
    \A h \in DOMAIN objects : RefsOf(objects, h) \subseteq DOMAIN objects

(***************************************************************************)
(* C6                                                                      *)
(***************************************************************************)
\* C6: every object file of the store holds the complete compressed framed
\* bytes of the object whose hash names it.
C6_StoredObjectsComplete ==
    \A h \in DOMAIN objects : Complete(objects, h)

(***************************************************************************)
(* C7                                                                      *)
(***************************************************************************)
\* C7: a put of an object the store already holds writes nothing: no step
\* changes the file of a complete object.
C7_SecondPutWritesNothing ==
    [][\A h \in DOMAIN objects :
          Complete(objects, h) => (h \in DOMAIN objects' /\ objects'[h] = objects[h])]_vars

(***************************************************************************)
(* C8                                                                      *)
(***************************************************************************)
\* the bytes writeIndex writes for one record
RecordLen(path) == Len(StrMode) + 1 + Len(path) + 1 + HashLen

RECURSIVE RecordEnd(_, _)
\* the offset at which the i-th record of an index written in order ends
RecordEnd(order, i) ==
    IF i = 0 THEN 0 ELSE RecordEnd(order, i - 1) + RecordLen(order[i])

\* the records of entries, written in order, that end at or before cut
CompleteBefore(entries, order, cut) ==
    [q \in {order[i] : i \in {j \in 1..Len(order) : RecordEnd(order, j) <= cut}}
       |-> entries[q]]

\* C8: readIndex on an index file cut at any offset returns, with no error
\* and no crash, the map of the records that are complete before the cut.
C8_TruncatedIndexLoads ==
    probe.fn = "readIndex" /\ probe.done =>
        /\ ~probe.err
        /\ ~probe.panic
        /\ probe.result = CompleteBefore(probe.entries, probe.order, probe.cut)

(***************************************************************************)
(* C9                                                                      *)
(***************************************************************************)
\* the paths given to add after one it could not read
LaterPaths(args, errs) ==
    {args[j] : j \in {k \in 1..Len(args) : \E i \in 1..(k - 1) : args[i] \in errs}}

\* C9: an add that could not read one of the paths it was given exits with
\* an error and stages none of the paths given after that one.
C9_UnreadablePathAbortsAdd ==
    [][(last'.cmd = "add" /\ last'.errs # {}) =>
          /\ last'.exit # 0
          /\ \A q \in LaterPaths(last'.args, last'.errs) :
                IndexAt(index', q) = IndexAt(index, q)]_vars

(***************************************************************************)
(* C10                                                                     *)
(***************************************************************************)
\* C10: the tree a successful commit stored holds one entry (100644, path,
\* blob hash) for each path of the index the commit read, and no other.
C10_TreeHoldsIndexEntries ==
    (last.cmd = "commit" /\ last.exit = 0) =>
        TreeRecords(objects, last.tree)
          = {[mode |-> StrMode, path |-> q, hash |-> last.entries[q]] :
               q \in DOMAIN last.entries}

(***************************************************************************)
(* C11                                                                     *)
(***************************************************************************)
\* the records of the index file, one after the other as the file holds them
IndexRecords(file) == IF file = NoFile THEN <<>> ELSE readTreeRecords(file, 0, <<>>)

\* no two records of the index file carry the same path
OnePerPath(file) ==
    LET distinct(recs) == \A i, j \in 1..Len(recs) : recs[i].path = recs[j].path => i = j
    IN distinct(IndexRecords(file))

\* the paths an add given args stages: the files named, or all under "."
StagedBy(args, wtree) ==
    {q \in Paths : /\ wtree[q] # NoFile
                   /\ \E i \in 1..Len(args) : args[i] = q \/ args[i] = StrDot}

\* C11: after every add the index file holds at most one record per path; a
\* path the add stages gets the hash of the content the file has now (also
\* when the index held another hash for it), and the entry of every other
\* path is as it was.
C11_AddOverwritesOnePath ==
    [][(last'.cmd = "add" /\ last'.exit = 0) =>
          /\ OnePerPath(index')
          /\ \A q \in Paths :
                IndexAt(index', q) = IF q \in StagedBy(last'.args, wt)
                                     THEN HashHex(Frame(StrBlob, wt[q]))
                                     ELSE IndexAt(index, q)]_vars

\* a is staged again after its content changed, next to the entry of d/f
C11_ChangedPathRestaged ==
    /\ last.cmd = "add" /\ last.exit = 0 /\ last.args = <<PathA>>
    /\ ncommits = 0 /\ nedits = 1
    /\ wt[PathA] = ContentYo
    /\ HashHex(Frame(StrBlob, ContentHi)) \in DOMAIN objects
    /\ Len(IndexRecords(index)) = 2
    /\ IndexAt(index, PathA) = HashHex(Frame(StrBlob, ContentYo))
    /\ IndexAt(index, PathDF) = HashHex(Frame(StrBlob, ContentYo))

(***************************************************************************)
(* C12                                                                     *)
(***************************************************************************)
\* the index file is absent or holds no entry
IndexEmpty(file) ==
    LET none(r) == ~r.panic /\ DOMAIN r.entries = {}
    IN none(readIndex(file, {}))

\* C12: a commit run when the index file is absent or holds no entry exits
\* with an error, names no tree and no commit, and leaves the object store,
\* the ref files, HEAD and the index file as they were.
C12_EmptyIndexCommitChangesNothing ==
    [][(last'.cmd = "commit" /\ ncommits' = ncommits + 1 /\ IndexEmpty(index)) =>
          /\ last'.exit = 1
          /\ last'.tree = <<>> /\ last'.hash = <<>>
          /\ objects' = objects
          /\ refs' = refs /\ dirs' = dirs
          /\ head' = head
          /\ index' = index]_vars

\* a commit with no I/O failure was refused in a repository with no index
C12_CommitRefusedOnAbsentIndex ==
    /\ last.cmd = "commit" /\ last.exit = 1 /\ last.faults = {}
    /\ index = NoFile
    /\ last.failed = {}
    /\ ncommits = 1

(***************************************************************************)
(* C13                                                                     *)
(***************************************************************************)
\* the paths the index file holds
IndexPaths(file) ==
    LET of(r) == DOMAIN r.entries
    IN of(readIndex(file, {}))

\* C13: the index holds no entry after init; an add that exits 0 keeps every
\* path the index held; the index holds no entry after a commit that exits
\* 0; a commit run right after a commit that exited 0 exits with an error
\* and stores no commit.
C13_IndexLifecycle ==
    /\ (last = NoRun => IndexEmpty(index))
    /\ [][/\ (last'.cmd = "add" /\ last'.exit = 0)
                => IndexPaths(index) \subseteq IndexPaths(index')
          /\ CommitDone => (index' # NoFile /\ IndexEmpty(index'))
          /\ (last.cmd = "commit" /\ last.exit = 0
              /\ last'.cmd = "commit" /\ ncommits' = ncommits + 1)
                => (last'.exit = 1 /\ last'.hash = <<>> /\ objects' = objects)]_vars

\* after a commit that cleared the index, a second commit was refused
C13_SecondCommitRefused ==
    /\ last.cmd = "commit" /\ last.exit = 1 /\ last.faults = {}
    /\ ncommits = 2
    /\ prev.hash # <<>>
    /\ index = <<>>
    /\ Cardinality({h \in DOMAIN objects : HasPrefix(readCompressedObject(objects, h).data,
                                                      StrCommit)}) = 1

(***************************************************************************)
(* writeIndex and readIndex on their own: a map is saved, then loaded.     *)
(***************************************************************************)
\* paths of the maps saved: a, d/f, and "1 x" (a digit and a space)
PathDigit == <<49, 32, 120>>
RoundPaths == {PathA, PathDF, PathDigit}
\* the hash whose 20 bytes are all zero
ZeroHash == [i \in 1..(2 * HashLen) |-> 48]
RoundHashes == {HashHex(Frame(StrBlob, c)) : c \in Contents} \cup {ZeroHash}
RoundMaps == UNION {[D -> RoundHashes] : D \in SUBSET RoundPaths}

RoundInit ==
    /\ wt \in {[q \in Paths |-> NoFile]}
    /\ head = StrHeadInit
    /\ refs = EmptyMap
    /\ dirs = {RefsDir}
    /\ index = NoFile
    /\ objects = EmptyMap
    /\ last = NoRun
    /\ prev = NoCommit
    /\ staged = EmptyMap
    /\ ncommits = 0 /\ nedits = 0 /\ nfaulty = 0
    /\ \E entries \in RoundMaps : \E order \in Orders(DOMAIN entries) :
         probe = [fn |-> "writeIndex", entries |-> entries, order |-> order,
                  saved |-> FALSE, loaded |-> FALSE, err |-> FALSE, panic |-> FALSE,
                  result |-> EmptyMap]

\* writeIndex(entries), the range over the map visiting the paths in order
SaveIndex ==
    LET written(w) == /\ index' = w.file
                      /\ probe' = [probe EXCEPT !.saved = TRUE, !.err = w.err]
    IN /\ probe.fn = "writeIndex"
       /\ ~probe.saved
       /\ written(writeIndex(index, probe.entries, probe.order, {}))
       /\ UNCHANGED <<wt, head, refs, dirs, objects, last, prev, staged,
                      ncommits, nedits, nfaulty>>

\* readIndex() on the file writeIndex wrote
LoadIndex ==
    LET read(r) == probe' = [probe EXCEPT !.loaded = TRUE, !.err = r.err,
                                          !.panic = r.panic, !.result = r.entries]
    IN /\ probe.fn = "writeIndex"
       /\ probe.saved /\ ~probe.err /\ ~probe.loaded
       /\ read(readIndex(index, {}))
       /\ UNCHANGED <<wt, head, refs, dirs, index, objects, last, prev, staged,
                      ncommits, nedits, nfaulty>>

NextRound == SaveIndex \/ LoadIndex

SpecRound == RoundInit /\ [][NextRound]_vars

(***************************************************************************)
(* C14                                                                     *)
(***************************************************************************)
\* C14: writeIndex saves every map of paths without NUL to hashes of 40
\* lower-case hex characters without error, in any order of the map, and
\* readIndex on the file it wrote returns that map; so for the empty map.
C14_IndexRoundTrip ==
    /\ (probe.fn = "writeIndex" /\ probe.saved) => ~probe.err
    /\ (probe.fn = "writeIndex" /\ probe.loaded) =>
          /\ ~probe.err /\ ~probe.panic
          /\ probe.result = probe.entries

\* a map of three paths, one hash all zero bytes, was saved and loaded
C14_ThreeEntriesLoaded ==
    /\ probe.fn = "writeIndex" /\ probe.loaded
    /\ DOMAIN probe.entries = RoundPaths
    /\ probe.entries[PathDigit] = ZeroHash
    /\ probe.entries[PathA] # ZeroHash
    /\ probe.order[1] = PathDigit
    /\ Len(index) = 3 * (Len(StrMode) + 2 + HashLen) + Len(PathA) + Len(PathDF) + Len(PathDigit)
    /\ DOMAIN probe.result = RoundPaths

(***************************************************************************)
(* writeTreeFromIndex on its own: a tree is built from a map, the range    *)
(* over the map taking one of its orders.                                  *)
(***************************************************************************)
TreeInit ==
    /\ wt \in {[q \in Paths |-> NoFile]}
    /\ head = StrHeadInit
    /\ refs = EmptyMap
    /\ dirs = {RefsDir}
    /\ index = NoFile
    /\ objects = EmptyMap
    /\ last = NoRun
    /\ prev = NoCommit
    /\ staged = EmptyMap
    /\ ncommits = 0 /\ nedits = 0 /\ nfaulty = 0
    /\ \E entries \in RoundMaps : \E order \in Orders(DOMAIN entries) :
         probe = [fn |-> "writeTreeFromIndex", entries |-> entries, order |-> order,
                  done |-> FALSE, err |-> FALSE, hash |-> <<>>, body |-> <<>>]

\* writeTreeFromIndex(indexEntries)
BuildTree ==
    LET built(t) == /\ objects' = t.objects
                    /\ probe' = [probe EXCEPT !.done = TRUE, !.err = t.err,
                                              !.hash = t.hash, !.body = t.body]
    IN /\ probe.fn = "writeTreeFromIndex"
       /\ ~probe.done
       /\ built(writeTreeFromIndexIn(probe.entries, probe.order, objects, {}))
       /\ UNCHANGED <<wt, head, refs, dirs, index, last, prev, staged,
                      ncommits, nedits, nfaulty>>

SpecTree == TreeInit /\ [][BuildTree]_vars

(***************************************************************************)
(* C15                                                                     *)
(***************************************************************************)
\* the record "100644 <path>\0<20-byte hash>" of a path of a map
RawRecord(entries, q) ==
    StrMode \o <<SP>> \o q \o <<NUL>> \o hexToBytes(entries[q]).bytes

\* the paths of a map, their records in ascending order of their bytes
RawOrder(entries) ==
    CHOOSE o \in Orders(DOMAIN entries) :
        \A i, j \in 1..Len(o) :
            i < j => StrLess(RawRecord(entries, o[i]), RawRecord(entries, o[j]))

RECURSIVE BodyOf(_, _, _)
\* the records of the paths o[i..], one after the other
BodyOf(entries, o, i) ==
    IF i > Len(o) THEN <<>>
    ELSE RawRecord(entries, o[i]) \o BodyOf(entries, o, i + 1)

RECURSIVE BodyWritten(_, _, _)
\* the same with each record as "100644 <path><20-byte hash>", no NUL
BodyWritten(entries, o, i) ==
    IF i > Len(o) THEN <<>>
    ELSE StrMode \o <<SP>> \o o[i] \o hexToBytes(entries[o[i]]).bytes
         \o BodyWritten(entries, o, i + 1)

\* in whatever order the map is ranged over, the tree built holds one record
\* per path, the paths in the ascending byte order of their records
\* "100644 <path>\0<20-byte hash>", each record without its NUL; the hash is
\* the hash of that body framed and the object stored under it holds it
TreeSameInEveryOrder ==
    (probe.fn = "writeTreeFromIndex" /\ probe.done) =>
        /\ ~probe.err
        /\ probe.body = BodyWritten(probe.entries, RawOrder(probe.entries), 1)
        /\ probe.hash = HashHex(Frame(StrTree, probe.body))
        /\ DOMAIN objects = {probe.hash}
        /\ ObjectBody(readCompressedObject(objects, probe.hash).data) = probe.body

\* C15: the tree built from a map has the same body and the same hash in
\* whatever order the map is ranged over: the body is the records
\* "100644 <path>\0<20-byte hash>" of the map in the ascending order of
\* their bytes, and the hash is the hash of that body framed.
C15_TreeDeterministic ==
    (probe.fn = "writeTreeFromIndex" /\ probe.done) =>
        /\ ~probe.err
        /\ probe.body = BodyOf(probe.entries, RawOrder(probe.entries), 1)
        /\ probe.hash = HashHex(Frame(StrTree, probe.body))

(***************************************************************************)
(* The object store on its own: an object of each kind is stored by the    *)
(* code that stores that kind, then read by cat-file.                      *)
(***************************************************************************)
\* file contents hashFile is given: empty, NUL bytes, text, a line feed,
\* the bytes of a header, the bytes that start a zlib stream
BlobBodies == {<<>>, <<NUL>>, <<NUL, NUL>>, <<97, NUL, 98>>, ContentHi, <<LF>>,
               StrBlob \o <<48, NUL>>, <<120, 156>>}

\* what is put: a blob of some contents, a tree of a map ranged over in some
\* order, a commit of a tree with or without a parent
PutInputs ==
    {[kind |-> "blob", fileContents |-> b] : b \in BlobBodies}
    \cup {[kind |-> "tree", entries |-> e, order |-> o] :
            e \in RoundMaps, o \in UNION {Orders(D) : D \in SUBSET RoundPaths}}
    \cup {[kind |-> "commit", tree |-> t, parent |-> p] :
            t \in RoundHashes, p \in {<<>>} \cup RoundHashes}

PutInit ==
    /\ wt \in {[q \in Paths |-> NoFile]}
    /\ head = StrHeadInit
    /\ refs = EmptyMap
    /\ dirs = {RefsDir}
    /\ index = NoFile
    /\ objects = EmptyMap
    /\ last = NoRun
    /\ prev = NoCommit
    /\ staged = EmptyMap
    /\ ncommits = 0 /\ nedits = 0 /\ nfaulty = 0
    /\ \E input \in PutInputs :
         /\ input.kind = "tree" => input.order \in Orders(DOMAIN input.entries)
         /\ probe = [fn |-> "put", input |-> input, put |-> FALSE, got |-> FALSE,
                     hash |-> <<>>, body |-> <<>>,
                     exit |-> 0, data |-> <<>>, content |-> <<>>]

\* what a put leaves: the store, the hash returned, the body framed
Stored(objs, hash, body) ==
    /\ objects' = objs
    /\ probe' = [probe EXCEPT !.put = TRUE, !.hash = hash, !.body = body]
    /\ UNCHANGED <<wt, head, refs, dirs, index, last, prev, staged,
                   ncommits, nedits, nfaulty>>

\* hashFile(fileContents)
PutBlob ==
    LET put(h) == ~h.err /\ Stored(h.objects, h.hash, probe.input.fileContents)
    IN /\ probe.fn = "put" /\ ~probe.put
       /\ probe.input.kind = "blob"
       /\ put(hashFile(probe.input.fileContents, objects, {}))

\* writeTreeFromIndex(indexEntries)
PutTree ==
    LET put(t) == ~t.err /\ Stored(t.objects, t.hash, t.body)
    IN /\ probe.fn = "put" /\ ~probe.put
       /\ probe.input.kind = "tree"
       /\ put(writeTreeFromIndexIn(probe.input.entries, probe.input.order, objects, {}))

\* the commit object as commit frames and writes it
PutCommit ==
    LET written(commitContent, commitHash, w) ==
            ~w.err /\ Stored(w.objects, commitHash, commitContent)
        store(commitContent, fullCommitData, commitHash) ==
            written(commitContent, commitHash,
                    WriteObject(objects, commitHash, compress(fullCommitData), FALSE, FALSE))
        framed(commitContent, fullCommitData) ==
            store(commitContent, fullCommitData, HashHex(fullCommitData))
        body(commitContent) == framed(commitContent, Frame(StrCommit, commitContent))
    IN /\ probe.fn = "put" /\ ~probe.put
       /\ probe.input.kind = "commit"
       /\ \E timestamp \in Times :
            body(CommitContent(probe.input.tree, probe.input.parent, timestamp))

\* cat-file -p <hash>
CatFile ==
    LET got(g) == probe' = [probe EXCEPT !.got = TRUE, !.exit = g.exit,
                                         !.data = g.data, !.content = g.content]
    IN /\ probe.fn = "put" /\ probe.put /\ ~probe.got
       /\ got(catFile(objects, probe.hash))
       /\ UNCHANGED <<wt, head, refs, dirs, index, objects, last, prev, staged,
                      ncommits, nedits, nfaulty>>

NextPut == PutBlob \/ PutTree \/ PutCommit \/ CatFile

SpecPut == PutInit /\ [][NextPut]_vars

(***************************************************************************)
(* C16                                                                     *)
(***************************************************************************)
\* the kind word of the framed form
KindWord(kind) ==
    IF kind = "blob" THEN StrBlob ELSE IF kind = "tree" THEN StrTree ELSE StrCommit

\* C16: cat-file on the hash a put returned exits 0, prints exactly the
\* body that was put, and the bytes it inflated are the framed form of the
\* kind and the body that were put.
C16_ObjectRoundTrip ==
    (probe.fn = "put" /\ probe.got) =>
        /\ probe.exit = 0
        /\ probe.content = probe.body
        /\ probe.data = Frame(KindWord(probe.input.kind), probe.body)

\* a blob whose contents hold a NUL byte was put and read back
C16_BlobWithNulRead ==
    /\ probe.fn = "put" /\ probe.got
    /\ probe.input.kind = "blob"
    /\ probe.body = <<97, NUL, 98>>
    /\ probe.content = <<97, NUL, 98>>
    /\ probe.hash \in DOMAIN objects

(***************************************************************************)
(* cat-file on its own: on a store that holds one object file, written by  *)
(* this program or by another, whole or cut short, or no file at all.      *)
(***************************************************************************)
\* what the object file inflates to: the blob "hi" framed, the same with a
\* declared length too long, too short, empty, with no NUL, and two texts
\* with no header at all
GetData == {Frame(StrBlob, ContentHi),
            StrBlob \o <<53, NUL>> \o ContentHi,
            StrBlob \o <<49, NUL>> \o ContentHi,
            StrBlob \o <<NUL>> \o ContentHi,
            StrBlob \o <<50>>,
            StrBlob \o <<50>> \o ContentHi,
            ContentHi,
            <<>>}

GetInit ==
    /\ wt \in {[q \in Paths |-> NoFile]}
    /\ head = StrHeadInit
    /\ refs = EmptyMap
    /\ dirs = {RefsDir}
    /\ index = NoFile
    /\ last = NoRun
    /\ prev = NoCommit
    /\ staged = EmptyMap
    /\ ncommits = 0 /\ nedits = 0 /\ nfaulty = 0
    /\ \E data \in GetData : \E cut \in -1..Len(compress(data)) :
         /\ objects = IF cut = -1 THEN EmptyMap
                      ELSE [h \in {HashHex(data)} |-> Slice(compress(data), 0, cut)]
         /\ probe = [fn |-> "catFile", object |-> HashHex(data), stored |-> data,
                     cut |-> cut, done |-> FALSE,
                     exit |-> 0, data |-> <<>>, content |-> <<>>]

\* cat-file -p <object>
CatFileOn ==
    LET got(g) == probe' = [probe EXCEPT !.done = TRUE, !.exit = g.exit,
                                         !.data = g.data, !.content = g.content]
    IN /\ probe.fn = "catFile" /\ ~probe.done
       /\ got(catFile(objects, probe.object))
       /\ UNCHANGED <<wt, head, refs, dirs, index, objects, last, prev, staged,
                      ncommits, nedits, nfaulty>>

SpecGet == GetInit /\ [][CatFileOn]_vars

(***************************************************************************)
(* C17                                                                     *)
(***************************************************************************)
\* the length a framed form declares: the text between the first space and
\* the first NUL
DeclaredLength(data) ==
    LET after(header, sp) == IF sp = -1 THEN <<>> ELSE Slice(header, sp + 1, Len(header))
        of(header) == after(header, IndexFrom(header, 0, SP))
    IN of(Slice(data, 0, IndexFrom(data, 0, NUL)))

\* the whole file inflates to bytes that hold a NUL, and the length declared
\* before it is not the length of what follows it
LengthMismatch(objs, object) ==
    LET differs(r) ==
            /\ ~r.err
            /\ IndexFrom(r.data, 0, NUL) # -1
            /\ DeclaredLength(r.data) # Itoa(Len(ObjectBody(r.data)))
    IN differs(readCompressedObject(objs, object))

\* the whole file inflates to bytes that hold no NUL
NoSeparator(objs, object) ==
    LET none(r) == ~r.err /\ IndexFrom(r.data, 0, NUL) = -1
    IN none(readCompressedObject(objs, object))

\* C17: cat-file exits with an error and prints no body when no object file
\* exists at the path of the name, when the bytes inflated hold no NUL, and
\* when the length the header declares is not the length of the body.
C17_GetErrors ==
    (probe.fn = "catFile" /\ probe.done
     /\ (\/ probe.object \notin DOMAIN objects
         \/ NoSeparator(objects, probe.object)
         \/ LengthMismatch(objects, probe.object)))
    => (probe.exit # 0 /\ probe.content = <<>>)

(***************************************************************************)
(* getFullHashFromAbbreviated on its own: on a store of blobs, given the   *)
(* first characters of the hash of a blob, stored or not.                  *)
(***************************************************************************)
AbbrevBodies == {<<>>, ContentHi, ContentYo, <<97, NUL, 98>>}
\* the lengths of the abbreviations given
AbbrevLens == {2, 6, 7, 8, 2 * HashLen}

\* the store hashFile leaves after it stored the blobs of S
BlobStore(S) ==
    [h \in {HashHex(Frame(StrBlob, b)) : b \in S} |->
        compress(Frame(StrBlob, CHOOSE b \in S : HashHex(Frame(StrBlob, b)) = h))]

AbbrevInit ==
    /\ wt \in {[q \in Paths |-> NoFile]}
    /\ head = StrHeadInit
    /\ refs = EmptyMap
    /\ dirs = {RefsDir}
    /\ index = NoFile
    /\ last = NoRun
    /\ prev = NoCommit
    /\ staged = EmptyMap
    /\ ncommits = 0 /\ nedits = 0 /\ nfaulty = 0
    /\ \E S \in {T \in SUBSET AbbrevBodies : Cardinality(T) <= 2} :
         objects = BlobStore(S)
    /\ \E b \in AbbrevBodies, n \in AbbrevLens :
         probe = [fn |-> "getFullHashFromAbbreviated",
                  abbrev |-> Slice(HashHex(Frame(StrBlob, b)), 0, n),
                  done |-> FALSE, err |-> FALSE, hash |-> <<>>]

\* getFullHashFromAbbreviated(abbrev)
Resolve ==
    LET resolved(r) == probe' = [probe EXCEPT !.done = TRUE, !.err = r.err,
                                              !.hash = r.hash]
    IN /\ probe.fn = "getFullHashFromAbbreviated" /\ ~probe.done
       /\ resolved(getFullHashFromAbbreviated(objects, probe.abbrev))
       /\ UNCHANGED <<wt, head, refs, dirs, index, objects, last, prev, staged,
                      ncommits, nedits, nfaulty>>

SpecAbbrev == AbbrevInit /\ [][Resolve]_vars

(***************************************************************************)
(* C18                                                                     *)
(***************************************************************************)
\* the stored objects whose hash starts with the abbreviation
Matches(objs, abbrev) == {h \in DOMAIN objs : HasPrefix(h, abbrev)}

\* C18: given fewer than 7 characters getFullHashFromAbbreviated fails
\* whatever the store holds; given 7 or more that start the hash of no stored
\* object it fails; given 7 or more that start the hash of exactly one stored
\* object it returns the 40 characters of that hash.
C18_AbbrevResolution ==
    (probe.fn = "getFullHashFromAbbreviated" /\ probe.done) =>
        /\ Len(probe.abbrev) < 7 => probe.err
        /\ (Len(probe.abbrev) >= 7 /\ Matches(objects, probe.abbrev) = {}) => probe.err
        /\ (Len(probe.abbrev) >= 7 /\ Cardinality(Matches(objects, probe.abbrev)) = 1) =>
              /\ ~probe.err
              /\ Len(probe.hash) = 2 * HashLen
              /\ {probe.hash} = Matches(objects, probe.abbrev)

\* what getFullHashFromAbbreviated does return: the two failures as stated,
\* and for exactly one match the 38 characters of the name of its file
AbbrevResolvesFileName ==
    (probe.fn = "getFullHashFromAbbreviated" /\ probe.done) =>
        /\ Len(probe.abbrev) < 7 => probe.err
        /\ (Len(probe.abbrev) >= 7 /\ Matches(objects, probe.abbrev) = {}) => probe.err
        /\ (Len(probe.abbrev) >= 7 /\ Cardinality(Matches(objects, probe.abbrev)) = 1) =>
              /\ ~probe.err
              /\ {Slice(probe.abbrev, 0, 2) \o probe.hash} = Matches(objects, probe.abbrev)

(***************************************************************************)
(* compareTrees on its own: on a store that holds two trees, each built by *)
(* commit from an index map or by write-tree from a working tree.          *)
(***************************************************************************)
\* what a stored tree is built from
DiffSources ==
    {[maker |-> "commit", entries |-> m] : m \in IndexMaps \ {EmptyMap}}
    \cup {[maker |-> "write-tree", wtree |-> w] : w \in [Paths -> Contents \cup {NoFile}]}

\* the tree write-tree stores for a working tree: [hash, objects]
writeTreeOf(wtree, objs) ==
    LET store(l, data) == [hash |-> HashHex(data),
                           objects |-> MapPut(l.objects, HashHex(data), compress(data))]
        walked(l) == store(l, Frame(StrTree, l.buffer))
    IN walked(WriteTreeLoop(Walk(wtree), 1, <<>>, objs, wtree, {}))

\* the tree of a source, stored: [hash, objects]
BuiltTree(src, objs) ==
    IF src.maker = "commit"
    THEN LET of(t) == [hash |-> t.hash, objects |-> t.objects]
         IN of(writeTreeFromIndexIn(src.entries, SortStrings(DOMAIN src.entries), objs, {}))
    ELSE writeTreeOf(src.wtree, objs)

\* the old tree given to compareTrees: a stored tree, "", or a hash of no object
OldKinds == {"stored", "empty", "missing"}

DiffInit ==
    /\ wt \in {[q \in Paths |-> NoFile]}
    /\ head = StrHeadInit
    /\ refs = EmptyMap
    /\ dirs = {RefsDir}
    /\ index = NoFile
    /\ last = NoRun
    /\ prev = NoCommit
    /\ staged = EmptyMap
    /\ ncommits = 0 /\ nedits = 0 /\ nfaulty = 0
    /\ \E old \in DiffSources, new \in DiffSources, kind \in OldKinds :
         LET stored(n, o) ==
                 /\ objects = (IF kind = "stored" THEN o.objects ELSE n.objects)
                 /\ probe = [fn |-> "compareTrees", kind |-> kind,
                             old |-> old, new |-> new,
                             oldTreeHash |-> IF kind = "stored" THEN o.hash
                                             ELSE IF kind = "empty" THEN <<>>
                                             ELSE HashHex(<<>>),
                             newTreeHash |-> n.hash,
                             done |-> FALSE, panic |-> FALSE,
                             insertions |-> 0, deletions |-> 0]
             built(n) == stored(n, BuiltTree(old, n.objects))
         IN built(BuiltTree(new, EmptyMap))

\* compareTrees(oldTreeHash, newTreeHash)
Diff ==
    LET compared(d) == probe' = [probe EXCEPT !.done = TRUE, !.panic = d.panic,
                                              !.insertions = d.insertions,
                                              !.deletions = d.deletions]
    IN /\ probe.fn = "compareTrees" /\ ~probe.done
       /\ compared(compareTrees(objects, probe.oldTreeHash, probe.newTreeHash))
       /\ UNCHANGED <<wt, head, refs, dirs, index, objects, last, prev, staged,
                      ncommits, nedits, nfaulty>>

SpecDiff == DiffInit /\ [][Diff]_vars

(***************************************************************************)
(* C19                                                                     *)
(***************************************************************************)
\* the entries of the tree of a source: path -> hash.  write-tree records a
\* directory with a hash of 20 zero bytes
SourceEntries(src) ==
    IF src.maker = "commit" THEN src.entries
    ELSE LET of(nodes) ==
                 [q \in {nodes[i].path : i \in 1..Len(nodes)} |->
                     IF \E i \in 1..Len(nodes) : nodes[i].path = q /\ nodes[i].isDir
                     THEN ZeroHash
                     ELSE HashHex(Frame(StrBlob, src.wtree[q]))]
         IN of(Walk(src.wtree))

\* C19: compareTrees of a stored tree with itself returns 0 insertions and 0
\* deletions; with "" or the hash of no object as the old tree it returns as
\* many insertions as the new tree has entries, and 0 deletions.
C19_DiffLaws ==
    (probe.fn = "compareTrees" /\ probe.done) =>
        /\ ~probe.panic
        /\ (probe.kind = "stored" /\ probe.oldTreeHash = probe.newTreeHash) =>
              (probe.insertions = 0 /\ probe.deletions = 0)
        /\ probe.kind # "stored" =>
              /\ probe.insertions = Cardinality(DOMAIN SourceEntries(probe.new))
              /\ probe.deletions = 0

\* the laws of C19 on the trees write-tree stored, which hold
DiffLawsOfWriteTree ==
    (probe.fn = "compareTrees" /\ probe.done /\ probe.new.maker = "write-tree"
     /\ (probe.kind = "stored" => probe.old.maker = "write-tree")) =>
        /\ ~probe.panic
        /\ (probe.kind = "stored" /\ probe.oldTreeHash = probe.newTreeHash) =>
              (probe.insertions = 0 /\ probe.deletions = 0)
        /\ probe.kind # "stored" =>
              /\ probe.insertions = Cardinality(DOMAIN SourceEntries(probe.new))
              /\ probe.deletions = 0

(***************************************************************************)
(* C20                                                                     *)
(***************************************************************************)
\* C20: compareTrees of two stored trees returns as insertions the paths of
\* the new tree that the old one lacks or holds with another hash, and as
\* deletions the paths of the old tree that the new one lacks or holds with
\* another hash.
C20_DiffAccounting ==
    (probe.fn = "compareTrees" /\ probe.done /\ probe.kind = "stored") =>
        /\ ~probe.panic
        /\ probe.insertions
             = DiffOf(SourceEntries(probe.old), SourceEntries(probe.new)).insertions
        /\ probe.deletions
             = DiffOf(SourceEntries(probe.old), SourceEntries(probe.new)).deletions

\* the accounting of C20 on two trees write-tree stored, which holds
DiffAccountingOfWriteTree ==
    (probe.old.maker = "write-tree" /\ probe.new.maker = "write-tree")
        => C20_DiffAccounting

(***************************************************************************)
(* Two add invocations at once on one repository, each for one path.  The  *)
(* steps of an invocation are its file-system calls on the index: the read *)
(* of readIndex, the staging of its file, the open of os.WriteFile (which  *)
(* truncates) and its write.  Nothing orders the calls of two processes.   *)
(***************************************************************************)
Procs == {"p", "q"}

\* the path each invocation is given
AddPath(proc) == IF proc = "p" THEN PathA ELSE PathDF

\* the index an earlier add left: none, or the entry of a with content "hi"
RaceIndexes == {EmptyMap, [x \in {PathA} |-> HashHex(Frame(StrBlob, ContentHi))]}

RaceInit ==
    /\ wt \in [Paths -> Contents]
    /\ head = StrHeadInit
    /\ refs = EmptyMap
    /\ dirs = {RefsDir}
    /\ last = NoRun
    /\ prev = NoCommit
    /\ staged = EmptyMap
    /\ ncommits = 0 /\ nedits = 0 /\ nfaulty = 0
    /\ \E before \in RaceIndexes :
         /\ index = IF before = EmptyMap THEN NoFile
                    ELSE writeIndex(NoFile, before, <<PathA>>, {}).file
         /\ objects = IF before = EmptyMap THEN EmptyMap ELSE BlobStore({ContentHi})
    /\ probe = [fn |-> "add",
                pc |-> [proc \in Procs |-> "start"],
                indexEntries |-> [proc \in Procs |-> EmptyMap],
                buffer |-> [proc \in Procs |-> <<>>],
                overlap |-> FALSE, early |-> FALSE]

\* the invocations that have read the index and not yet opened it to write
Unsaved == {proc \in Procs : probe.pc[proc] \in {"loaded", "staged"}}

\* the invocations that have read the index and not yet written it
InFlight == {proc \in Procs : probe.pc[proc] \in {"loaded", "staged", "opened"}}

\* indexEntries, err := readIndex()
RaceLoad(proc) ==
    LET read(r) ==
            /\ ~r.err /\ ~r.panic
            /\ probe' = [probe EXCEPT !.pc[proc] = "loaded",
                                      !.indexEntries[proc] = r.entries,
                                      !.overlap = @ \/ InFlight # {},
                                      !.early = @ \/ Unsaved # {}]
    IN /\ probe.fn = "add" /\ probe.pc[proc] = "start"
       /\ read(readIndex(index, {}))
       /\ UNCHANGED <<wt, head, refs, dirs, index, objects, last, prev, staged,
                      ncommits, nedits, nfaulty>>

\* addFileToIndex(indexEntries, pattern)
RaceStage(proc) ==
    LET added(a) ==
            /\ ~a.err
            /\ objects' = a.objects
            /\ probe' = [probe EXCEPT !.pc[proc] = "staged",
                                      !.indexEntries[proc] = a.entries]
    IN /\ probe.fn = "add" /\ probe.pc[proc] = "loaded"
       /\ added(addFileToIndex([err |-> FALSE, entries |-> probe.indexEntries[proc],
                                objects |-> objects, staged |-> EmptyMap],
                               wt, AddPath(proc), {}))
       /\ UNCHANGED <<wt, head, refs, dirs, index, last, prev, staged,
                      ncommits, nedits, nfaulty>>

\* writeIndex up to the open of os.WriteFile: the buffer is built, the file
\* is opened with O_TRUNC
RaceOpen(proc) ==
    /\ probe.fn = "add" /\ probe.pc[proc] = "staged"
    /\ \E order \in Orders(DOMAIN probe.indexEntries[proc]) :
         probe' = [probe EXCEPT
                     !.pc[proc] = "opened",
                     !.buffer[proc] = IndexBytes(probe.indexEntries[proc], order, 1, <<>>).bytes]
    /\ index' = <<>>
    /\ UNCHANGED <<wt, head, refs, dirs, objects, last, prev, staged,
                   ncommits, nedits, nfaulty>>

\* the write of os.WriteFile, at offset 0 of the file as it is now: what the
\* file holds past the bytes written stays
RaceWrite(proc) ==
    /\ probe.fn = "add" /\ probe.pc[proc] = "opened"
    /\ index' = probe.buffer[proc]
                \o SubSeq(index, Len(probe.buffer[proc]) + 1, Len(index))
    /\ probe' = [probe EXCEPT !.pc[proc] = "done"]
    /\ UNCHANGED <<wt, head, refs, dirs, objects, last, prev, staged,
                   ncommits, nedits, nfaulty>>

NextRace ==
    \E proc \in Procs :
        \/ RaceLoad(proc)
        \/ RaceStage(proc)
        \/ RaceOpen(proc)
        \/ RaceWrite(proc)

SpecRace == RaceInit /\ [][NextRace]_vars

(***************************************************************************)
(* C21                                                                     *)
(***************************************************************************)
\* no invocation is between its first and its last step
Quiescent == \A proc \in Procs : probe.pc[proc] \in {"start", "done"}

\* the index file holds, for the path of a completed add, the hash of the
\* blob of its file
AddKept(proc) ==
    IndexAt(index, AddPath(proc)) = HashHex(Frame(StrBlob, wt[AddPath(proc)]))

\* C21: when the two adds run one after another (neither reads the index
\* while the other is between its read and its write), the index holds the
\* path of every completed add once no add is running; a completed add's
\* path is missing from the index only after the two overlapped.
C21_SerialAddsKeepPaths ==
    (probe.fn = "add" /\ Quiescent /\ ~probe.overlap) =>
        \A proc \in Procs : probe.pc[proc] = "done" => AddKept(proc)

\* both adds completed, both read the index before either wrote it, and the
\* index lacks the path one of them staged
C21_ConcurrentAddLosesPath ==
    /\ probe.fn = "add"
    /\ \A proc \in Procs : probe.pc[proc] = "done"
    /\ probe.early
    /\ \A proc \in Procs : AddPath(proc) \in DOMAIN probe.indexEntries[proc]
    /\ \E proc \in Procs : AddPath(proc) \notin IndexPaths(index)
    /\ \E proc \in Procs : AddKept(proc)

(***************************************************************************)
(* C22                                                                     *)
(***************************************************************************)
\* the commit HEAD resolves to: the hash it holds, or the hash in the ref
\* file it names, or <<>>
HeadCommit(hd, rfs) ==
    LET at(headStr) ==
            IF ~HasPrefix(headStr, StrRef) THEN headStr
            ELSE IF RefPath(hd) \in DOMAIN rfs THEN TrimSpace(rfs[RefPath(hd)])
            ELSE <<>>
    IN IF hd = NoFile THEN <<>> ELSE at(TrimSpace(hd))

\* C22: after every commit that stored a commit object and cleared the
\* index, HEAD resolves, by the hash it holds or through the ref it names,
\* to the hash of that commit.
C22_ClearedIndexMeansHeadMoved ==
    [][(/\ last'.cmd = "commit" /\ ncommits' = ncommits + 1
        /\ last'.hash # <<>>
        /\ ~IndexEmpty(index) /\ index' = <<>>)
       => HeadCommit(head', refs') = last'.hash]_vars

====
